---- MODULE Spec2Model ----
(***************************************************************************)
(* State-machine model of the MCMC sequence designer of                    *)
(* src/design/MCMC.py (class ProteinDesign): mutate, energy_function,      *)
(* p_accept, the acceptance decision and the step loop of run(), with the  *)
(* files and the exception that run() leaves behind.                       *)
(*                                                                         *)
(* Sequences are TLA+ sequences of residue letters.  Positions are the     *)
(* 0-based positions of the Python code: position p of seq is seq[p + 1].  *)
(* Trajectory n of the code (0-based) is index n + 1 of the tuples here.   *)
(***************************************************************************)
EXTENDS Integers, Sequences, FiniteSets, TLC

(***************************************************************************)
(* Bounds of the model.                                                    *)
(***************************************************************************)
\* self.n_traj: number of trajectories of the run
n_traj == 2
\* self.steps: number of iterations of the step loop
steps == 2
\* the native sequence has 1..MaxNativeLen residues
MaxNativeLen == 2
\* random.choice(AAs) draws among the first NumAAs letters of AAs
NumAAs == 1
\* the initial constraint dict holds at most MaxConstrained positions in all
MaxConstrained == 1
\* energies returned by energy_function are abstracted to 0..MaxE
MaxE == 1
\* random.random() returns 0 or exp(-k/10) for k in 1..MaxDraw
MaxDraw == 1
\* train(): the argument epochs
epochs == 3
\* EarlyStopping: patience in 1..MaxPatience
MaxPatience == 2
\* EarlyStopping: delta in 0..MaxDelta
MaxDelta == 1
\* validation losses are in 0..MaxLoss
MaxLoss == 2
\* EarlyStopping called on its own: at most MaxCalls calls
MaxCalls == 4
\* p_accept called on its own: T in 1..MaxT
MaxT == 2
\* p_accept called on its own: M in 0..MaxM hundredths
MaxM == 2
\* p_accept called on its own: energies in 0..MaxPE
MaxPE == 2
\* energy_function called on its own: weights in 0..MaxW
MaxW == 1
\* energy_function called on its own: finite raw term values in 0..MaxRaw
MaxRaw == 1

(***************************************************************************)
(* Constants of the program.                                               *)
(***************************************************************************)
\* MCMC.py:120-122
AAs == << "A", "C", "D", "E", "F", "G", "H", "I", "K", "L",
          "M", "N", "P", "Q", "R", "S", "T", "V", "W", "Y" >>

\* MCMC.py:124
mut_types == << "substitution", "insertion", "deletion" >>

\* MCMC.py:39: T = 10.
DefaultT == 10

\* MCMC.py:39: M = 0.01, in hundredths
DefaultM == 1

\* MCMC.py:38: mut_p = (0.6, 0.2, 0.2), in tenths
DefaultMutP == << 6, 2, 2 >>

\* a mut_p whose weights sum to 0
ZeroMutP == << 0, 0, 0 >>

\* native_seq = None (MCMC.py:35)
NoSeq == << "None" >>

\* the keys of the constraint dict: the two that mutate reads (MCMC.py:35,
\* 136) and one further kind, which mutate remaps like the others
Kinds == {"no_mut", "all_atm", "region"}

VARIABLES
    \* ---- configuration, set by __init__ (MCMC.py:52-72)
    native_seq,           \* self.native_seq
    self_constraints,     \* self.constraints
    outdir,               \* self.outdir != None
    pred_struc,           \* self.pred_struc
    T,                    \* self.T
    M,                    \* self.M, in hundredths
    mut_p,                \* self.mut_p, in tenths
    \* ---- run() (MCMC.py:256-309)
    pc,                   \* position in run()
    i,                    \* the step index of `for i in range(steps)`
    seqs,                 \* current sequences, one per trajectory
    constraints,          \* the list `constraints` of run()
    ref_constraints,      \* self.ref_constraints
    E_x_i,                \* current energies
    pdbs,                 \* the list `pdbs` of run()
    ref_pdbs,             \* self.ref_pdbs (the same list object as pdbs)
    mut_seqs,             \* proposed sequences of this step
    E_x_mut,              \* proposed energies of this step
    pdbs_mut,             \* proposed structures of this step
    accepted,             \* outcome of `p[n] > random.random()` for the
                          \* trajectories decided so far in this step
    p,                    \* the result of p_accept, as logarithms
    T_eff,                \* the local T of the last call of p_accept
    r,                    \* the last random.random(), as a logarithm
    written,              \* the files written, in the order of the writes
    dir_exists,           \* the output directory exists
    exc,                  \* the exception that ended run()
    terms_x_i,            \* the terms that E_x_i[n] is the sum of
    terms_x_mut,          \* the terms that E_x_mut[n] is the sum of
    \* ---- energy_function() (MCMC.py:195-243)
    weights,              \* self.w_max_len, ..., self.w_all_atm, by term
    term,                 \* the number of terms added to energies so far
    energies,             \* energies
    raw,                  \* what the last scoring term returned
    \* ---- mutate() (MCMC.py:107-192)
    pos,                  \* last position drawn
    mut_type,             \* last mutation type drawn
    mutated_seqs,         \* mutated_seqs
    mutated_constraints,  \* mutated_constraints
    \* ---- EarlyStopping and train() (pytorchtools.py:74-120, 151-200)
    early_stopping,       \* the EarlyStopping object: its attributes
    checkpoint,           \* the file early_stopping.path: the model state in it
    calls,                \* the val_loss of every call of early_stopping so far
    epoch,                \* `for epoch in range(epochs)`
    best_val_loss,        \* best_val_loss of train()
    val_losses,           \* val_losses of train()
    model_file,           \* the file activity_model_<fold>: the state in it
    model,                \* the state of the model: the epochs it was trained
    \* ---- history
    start                 \* the trajectories' state when the step began

vars == << native_seq, self_constraints, outdir, pred_struc, T, M, mut_p, pc,
           i, seqs, constraints, ref_constraints, E_x_i, pdbs, ref_pdbs,
           mut_seqs, E_x_mut, pdbs_mut, accepted, p, T_eff, r, written,
           dir_exists, exc, terms_x_i, terms_x_mut, weights, term, energies,
           raw, pos, mut_type,
           mutated_seqs, mutated_constraints, early_stopping, checkpoint,
           calls, epoch, best_val_loss, val_losses, model_file, model,
           start >>

config == << native_seq, self_constraints, outdir, pred_struc, T, M, mut_p >>

\* what run() leaves outside its own variables
effects == << written, dir_exists, exc >>

\* EarlyStopping and train()
training == << early_stopping, checkpoint, calls, epoch, best_val_loss,
              val_losses, model_file, model >>

\* which terms the energies of run() are sums of
termsets == << terms_x_i, terms_x_mut >>

\* energy_function called on its own
scoring == << weights, term, energies, raw >>

\* the acceptance probabilities and the draw they are compared with
decision == << p, T_eff, r >>

(***************************************************************************)
(* Helpers on lists.                                                       *)
(***************************************************************************)
Range(s) == {s[j] : j \in DOMAIN s}

\* Python's `x in list`
InList(x, s) == \E j \in DOMAIN s : s[j] = x

Min(S) == CHOOSE x \in S : \A y \in S : x <= y

\* the ascending list of a finite set of integers
RECURSIVE SortedSeq(_)
SortedSeq(S) == IF S = {} THEN << >>
                ELSE << Min(S) >> \o SortedSeq(S \ {Min(S)})

Traj == 1 .. n_traj

Energies == 0 .. MaxE

(***************************************************************************)
(* Numbers.  A float is modelled by the rational num / den with den > 0;   *)
(* den = 0 is the float inf (num > 0) or -inf (num < 0).  M is counted in  *)
(* hundredths, so 1 + M * i is the rational (100 + M * i) / 100.           *)
(***************************************************************************)
Rat(a, b) == [num |-> a, den |-> b]

Zero == Rat(0, 1)

PosInf == Rat(1, 0)

NegInf == Rat(-1, 0)

\* x < y
Less(x, y) ==
    IF x.den = 0 /\ y.den = 0 THEN x.num < y.num
    ELSE IF x.den = 0 THEN x.num < 0
    ELSE IF y.den = 0 THEN y.num > 0
    ELSE x.num * y.den < y.num * x.den

\* x == y of two floats
Same(x, y) == ~Less(x, y) /\ ~Less(y, x)

(***************************************************************************)
(* The floats of energy_function: the rationals above, inf and -inf, and   *)
(* NaN, with the arithmetic of numpy (IEEE 754).                           *)
(***************************************************************************)
NaN == Rat(0, 0)

IsNaN(x) == x.den = 0 /\ x.num = 0

IsInf(x) == x.den = 0 /\ x.num # 0

Sign(v) == IF v > 0 THEN 1 ELSE IF v < 0 THEN -1 ELSE 0

\* wgt * x for a finite weight: 0 * inf and anything * nan are nan
Times(wgt, x) ==
    IF IsNaN(x) THEN NaN
    ELSE IF IsInf(x) THEN (IF wgt = 0 THEN NaN ELSE Rat(Sign(wgt) * x.num, 0))
    ELSE Rat(wgt * x.num, x.den)

\* x + y: nan + anything and inf + -inf are nan
Plus(x, y) ==
    IF IsNaN(x) \/ IsNaN(y) THEN NaN
    ELSE IF IsInf(x) /\ IsInf(y) THEN (IF x.num = y.num THEN x ELSE NaN)
    ELSE IF IsInf(x) THEN x
    ELSE IF IsInf(y) THEN y
    ELSE Rat(x.num * y.den + y.num * x.den, x.den * y.den)

\* 1 - x
OneMinus(x) ==
    IF IsNaN(x) THEN NaN
    ELSE IF IsInf(x) THEN Rat(-x.num, 0)
    ELSE Rat(x.den - x.num, x.den)

(***************************************************************************)
(* p_accept (MCMC.py:245-253).  exp is increasing, so the probability      *)
(* exp(x) is carried as its logarithm x: the value 1 is Zero, the value 0  *)
(* is NegInf, and np.minimum(exp_val, 1) is the smaller of x and Zero.     *)
(***************************************************************************)
\* a slip of EffectiveT: the temperature is multiplied by 1 + M * i
EffectiveTHeated(T0, M0, step) == Rat(T0 * (100 + M0 * step), 100)

\* T = T / (1 + M * i)
EffectiveT(T0, M0, step) == Rat(T0 * 100, 100 + M0 * step)

\* dE = E_x_i - E_x_mut
DeltaE(e_mut, e_i) == e_i - e_mut

\* 1 / (T * dE); numpy's 1 / 0.0 is inf
Exponent(Teff, dE) ==
    IF dE = 0 THEN PosInf
    ELSE IF dE > 0 THEN Rat(Teff.den, Teff.num * dE)
    ELSE Rat(-Teff.den, Teff.num * (-dE))

\* a slip of Minimum: exp_val is returned as it is
NoMinimum(x) == x

\* np.minimum(exp_val, np.ones_like(exp_val)), on the logarithms
Minimum(x) == IF Less(Zero, x) THEN Zero ELSE x

\* the element of p_accept's result for one trajectory, Teff being the
\* local T after line 249
PAcceptAt(e_mut, e_i, Teff) == Minimum(Exponent(Teff, DeltaE(e_mut, e_i)))

PAccept(e_mut, e_i, T0, step, M0) ==
    PAcceptAt(e_mut, e_i, EffectiveT(T0, M0, step))

\* random.random(), a float of [0, 1), as its logarithm
Draws == {NegInf} \cup {Rat(-k, 10) : k \in 1 .. MaxDraw}

\* r before the first draw, T_eff before the first call
NoDraw == Rat(0, 0)

(***************************************************************************)
(* mutate: the edits of the sequence (MCMC.py:143-185).                    *)
(***************************************************************************)
\* ''.join([seq[:pos], replacement, seq[pos + 1:]])
Substitute(seq, q, aa) ==
    SubSeq(seq, 1, q) \o << aa >> \o SubSeq(seq, q + 2, Len(seq))

\* a slip of Insert: the residue at pos is overwritten, nothing is inserted
InsertOverwriting(seq, q, aa) ==
    SubSeq(seq, 1, q) \o << aa >> \o SubSeq(seq, q + 2, Len(seq))

\* ''.join([seq[:pos], insertion, seq[pos:]])
Insert(seq, q, aa) ==
    SubSeq(seq, 1, q) \o << aa >> \o SubSeq(seq, q + 1, Len(seq))

\* l = list(seq); del l[pos]
Delete(seq, q) ==
    SubSeq(seq, 1, q) \o SubSeq(seq, q + 2, Len(seq))

(***************************************************************************)
(* mutate: the remapping of the constraint lists.                          *)
(***************************************************************************)
\* a slip of ShiftUp: `i <= pos` for `i < pos`
ShiftUpAfter(positions, q) ==
    [j \in DOMAIN positions |->
        IF positions[j] <= q THEN positions[j] ELSE positions[j] + 1]

\* [i if i < pos else i + 1 for i in positions]
ShiftUp(positions, q) ==
    [j \in DOMAIN positions |->
        IF positions[j] < q THEN positions[j] ELSE positions[j] + 1]

\* [i if i < pos else i - 1 for i in positions]
ShiftDown(positions, q) ==
    [j \in DOMAIN positions |->
        IF positions[j] < q THEN positions[j] ELSE positions[j] - 1]

\* substitution: mut_constraints[const] = positions
SubstitutionConstraints(c) == [const \in DOMAIN c |-> c[const]]

\* insertion (and the fallback insertion)
InsertionConstraints(c, q) == [const \in DOMAIN c |-> ShiftUp(c[const], q)]

\* deletion
DeletionConstraints(c, q) == [const \in DOMAIN c |-> ShiftDown(c[const], q)]

\* a slip of Locked: the all_atm list is not looked at
LockedNoMutOnly(c, q) == InList(q, c["no_mut"])

\* pos in constraints[i]['no_mut'] or pos in constraints[i]['all_atm']
Locked(c, q) == InList(q, c["no_mut"]) \/ InList(q, c["all_atm"])

\* a slip of DeletionApplies: `len(seq) > 0`
DeletionAppliesNonEmpty(seq) == Len(seq) > 0

\* mut_type == 'deletion' and len(seq) > 1
DeletionApplies(seq) == Len(seq) > 1

(***************************************************************************)
(* Inputs of the run.                                                      *)
(***************************************************************************)
\* The native sequence: distinct residues taken from the end of AAs, so that
\* within the bounds no residue drawn by random.choice(AAs) equals a native
\* residue and a native residue can be followed through the edits.
NativeOfLen(L) == [j \in 1 .. L |-> AAs[Len(AAs) + 1 - j]]

\* random.choice(AAs), within the bound NumAAs
Replacements == {AAs[j] : j \in 1 .. NumAAs}

\* Constraint dicts over the positions of seq: every kind holds an ascending
\* list of distinct valid positions, MaxConstrained positions in all.
InitialConstraints(seq) ==
    LET P == 0 .. (Len(seq) - 1)
        Total(f) == Cardinality(f["no_mut"]) + Cardinality(f["all_atm"])
                    + Cardinality(f["region"])
    IN  {[const \in Kinds |-> SortedSeq(f[const])] :
            f \in {g \in [Kinds -> SUBSET P] : Total(g) <= MaxConstrained}}

\* The structure predicted by Constraints.structure_prediction for one
\* sequence (MCMC.py:216): identified by the sequence it was predicted from.
Structure(seq) == [of |-> seq]

\* The trajectories' state, recorded when a step begins.
Snapshot(s, c, e, q) == [seqs |-> s, constraints |-> c, E_x_i |-> e, pdbs |-> q]

\* no EarlyStopping object and no call of train()
NotTraining ==
    /\ early_stopping = << >>
    /\ checkpoint = << >>
    /\ calls = << >>
    /\ epoch = 0
    /\ best_val_loss = PosInf
    /\ val_losses = << >>
    /\ model_file = << >>
    /\ model = 0

\* energy_function is not called on its own
NotScoring ==
    /\ NotTraining
    /\ weights = << >>
    /\ term = 0
    /\ energies = << >>
    /\ raw = << >>

\* nothing decided, written or raised yet
NoneYet ==
    /\ terms_x_i = << >>
    /\ terms_x_mut = << >>
    /\ p = << >>
    /\ T_eff = NoDraw
    /\ r = NoDraw
    /\ written = << >>
    /\ dir_exists = FALSE
    /\ exc = "none"

(***************************************************************************)
(* Init: the object after __init__ (MCMC.py:35-72), run() not yet called.  *)
(***************************************************************************)
Init ==
    /\ native_seq \in {NativeOfLen(L) : L \in 1 .. MaxNativeLen} \cup {NoSeq}
    /\ self_constraints \in
          IF native_seq = NoSeq THEN {[const \in Kinds |-> << >>]}
          ELSE InitialConstraints(native_seq)
    /\ outdir \in BOOLEAN
    /\ pred_struc \in BOOLEAN
    /\ T = DefaultT
    /\ M = DefaultM
    /\ mut_p \in {DefaultMutP, ZeroMutP}
    /\ NoneYet
    /\ NotScoring
    /\ pc = "init"
    /\ i = 0
    /\ seqs = << >>
    /\ constraints = << >>
    /\ ref_constraints = << >>
    /\ E_x_i = << >>
    /\ pdbs = << >>
    /\ ref_pdbs = << >>
    /\ mut_seqs = << >>
    /\ E_x_mut = << >>
    /\ pdbs_mut = << >>
    /\ accepted = << >>
    /\ pos = -1
    /\ mut_type = "none"
    /\ mutated_seqs = << >>
    /\ mutated_constraints = << >>
    /\ start = Snapshot(<< >>, << >>, << >>, << >>)

(***************************************************************************)
(* run(), MCMC.py:260-292: the lists of the trajectories and the scoring   *)
(* of the native sequence.  The energies come from the scoring terms and   *)
(* the structure predictor, which are outside this file: any energy of     *)
(* the abstract range.                                                     *)
(***************************************************************************)
\* energy_function's second result: pdbs = [] unless self.pred_struc
PredictedStructures(ss) ==
    IF pred_struc THEN [n \in DOMAIN ss |-> Structure(ss[n])] ELSE << >>

\* a slip of LoopEntry: `range(steps + 1)`
LoopEntryInclusive(step) == IF step <= steps THEN "search" ELSE "done"

\* the range of the step loop is empty or not (MCMC.py:294)
LoopEntry(step) == IF step < steps THEN "search" ELSE "done"

\* the terms in the order they are added (MCMC.py:208-227)
Terms == << "max_len", "identity", "ptm", "plddt", "globularity", "sasa",
            "bb_coord", "all_atm" >>

\* how many of them are enabled: `if self.pred_struc` (MCMC.py:214) and
\* `if self.ref_pdbs != None` (MCMC.py:225)
Enabled == IF ~pred_struc THEN 2 ELSE IF ref_pdbs = << >> THEN 6 ELSE 8

\* a slip of EnabledTerms: the coordination terms are added whether or not
\* there is a reference
EnabledTermsAlways ==
    {Terms[k] : k \in 1 .. (IF pred_struc THEN Len(Terms) ELSE 2)}

\* the terms one call of energy_function adds up
EnabledTerms == {Terms[k] : k \in 1 .. Enabled}

\* os.mkdir(outdir) when an output directory is configured (MCMC.py:272-274)
MakeOutdir == dir_exists' = (dir_exists \/ outdir)

RunSetup ==
    /\ pc = "init"
    /\ MakeOutdir
    /\ native_seq # NoSeq
    /\ seqs' = [n \in Traj |-> native_seq]
    /\ constraints' = [n \in Traj |-> self_constraints]
    /\ ref_constraints' = constraints'
    /\ E_x_i' \in [Traj -> Energies]
    /\ terms_x_i' = [n \in Traj |-> EnabledTerms]
    /\ pdbs' = PredictedStructures(seqs')
    /\ ref_pdbs' = pdbs'
    /\ i' = 0
    /\ pc' = LoopEntry(0)
    /\ start' = Snapshot(seqs', constraints', E_x_i', pdbs')
    /\ UNCHANGED << config, training, scoring, terms_x_mut, decision, written,
                    exc, mut_seqs, E_x_mut, pdbs_mut, accepted, pos, mut_type,
                    mutated_seqs, mutated_constraints >>

\* The scoring of the native sequence raises (MCMC.py:289): the structure
\* predictor and the scoring terms are calls out of this file, and run()
\* catches nothing.
InitialScoringFails ==
    /\ pc = "init"
    /\ MakeOutdir
    /\ native_seq # NoSeq
    /\ seqs' = [n \in Traj |-> native_seq]
    /\ constraints' = [n \in Traj |-> self_constraints]
    /\ ref_constraints' = constraints'
    /\ exc' = "ScoringError"
    /\ pc' = "error"
    /\ UNCHANGED << config, training, scoring, termsets, decision, written, i,
                    E_x_i, pdbs, ref_pdbs, mut_seqs, E_x_mut, pdbs_mut,
                    accepted, pos, mut_type, mutated_seqs, mutated_constraints,
                    start >>

\* `if native_seq is None: raise '<a str>'` (MCMC.py:279-280): raising a str
\* is a TypeError, and the directory has been made by then
RunFails ==
    /\ pc = "init"
    /\ MakeOutdir
    /\ native_seq = NoSeq
    /\ exc' = "TypeError"
    /\ pc' = "error"
    /\ UNCHANGED << config, training, scoring, termsets, decision, written, i,
                    seqs, constraints, ref_constraints, E_x_i, pdbs, ref_pdbs,
                    mut_seqs, E_x_mut, pdbs_mut, accepted, pos, mut_type,
                    mutated_seqs, mutated_constraints, start >>

(***************************************************************************)
(* mutate(), MCMC.py:126-192.  m is the index of the sequence the loop     *)
(* `for i, seq in enumerate(seqs)` is at.                                  *)
(***************************************************************************)
m == Len(mutated_seqs) + 1

Sum(w) == w[1] + w[2] + w[3]

\* random.choices(mut_types, mut_p)[0] (MCMC.py:135): a type of positive
\* weight.  With weights that sum to 0, random.choices of Python 3.6-3.8
\* returns the last element, and the one of Python 3.9 and later raises
\* ValueError (DrawFails).
Choices(w) ==
    IF Sum(w) = 0 THEN {mut_types[Len(mut_types)]}
    ELSE {mut_types[j] : j \in {k \in DOMAIN mut_types : w[k] > 0}}

\* One iteration of `while mutate` that draws a locked position
\* (MCMC.py:134-137) and goes round again.
DrawLocked ==
    /\ pc = "search"
    /\ \E q \in 0 .. (Len(seqs[m]) - 1), t \in Choices(mut_p) :
          /\ Locked(constraints[m], q)
          /\ pos' = q
          /\ mut_type' = t
    /\ UNCHANGED << config, training, scoring, termsets, effects, decision, pc,
                    i, seqs, constraints, ref_constraints, E_x_i, pdbs,
                    ref_pdbs, mut_seqs, E_x_mut, pdbs_mut, accepted,
                    mutated_seqs, mutated_constraints, start >>

\* The iteration that draws an allowed position and breaks
\* (MCMC.py:134-141).
DrawUnlocked ==
    /\ pc = "search"
    /\ \E q \in 0 .. (Len(seqs[m]) - 1), t \in Choices(mut_p) :
          /\ ~Locked(constraints[m], q)
          /\ pos' = q
          /\ mut_type' = t
    /\ pc' = "edit"
    /\ UNCHANGED << config, training, scoring, termsets, effects, decision, i,
                    seqs, constraints, ref_constraints, E_x_i, pdbs, ref_pdbs,
                    mut_seqs, E_x_mut, pdbs_mut, accepted, mutated_seqs,
                    mutated_constraints, start >>

\* random.choices raises ValueError for weights that sum to 0 (Python 3.9
\* and later), after the position was drawn (MCMC.py:134-135); run() does
\* not catch it.
DrawFails ==
    /\ pc = "search"
    /\ Sum(mut_p) = 0
    /\ pos' \in 0 .. (Len(seqs[m]) - 1)
    /\ exc' = "ValueError"
    /\ pc' = "error"
    /\ UNCHANGED << config, training, scoring, termsets, decision, written,
                    dir_exists, i, seqs, constraints, ref_constraints, E_x_i,
                    pdbs, ref_pdbs, mut_seqs, E_x_mut, pdbs_mut, accepted,
                    mut_type, mutated_seqs, mutated_constraints, start >>

\* a slip of Appended: `mut_constraints = constraints[i]` for
\* `mut_constraints = {}`, so that the edit writes into the input dict, which
\* is the one dict object of every trajectory (MCMC.py:283)
AppendedInPlace(mut_seq, mut_constraints) ==
    /\ mutated_seqs' = Append(mutated_seqs, mut_seq)
    /\ mutated_constraints' = Append(mutated_constraints, mut_constraints)
    /\ constraints' = [t \in DOMAIN constraints |-> mut_constraints]
    /\ pc' = IF m = n_traj THEN "return" ELSE "search"
    /\ UNCHANGED << config, training, scoring, termsets, effects, decision, i,
                    seqs, ref_constraints, E_x_i, pdbs, ref_pdbs, mut_seqs,
                    E_x_mut, pdbs_mut, accepted, pos, mut_type, start >>

\* mutated_seqs.append(mut_seq); mutated_constraints.append(mut_constraints)
\* and the next sequence of the loop, or its end (MCMC.py:187-188)
Appended(mut_seq, mut_constraints) ==
    /\ mutated_seqs' = Append(mutated_seqs, mut_seq)
    /\ mutated_constraints' = Append(mutated_constraints, mut_constraints)
    /\ pc' = IF m = n_traj THEN "return" ELSE "search"
    /\ UNCHANGED << config, training, scoring, termsets, effects, decision, i,
                    seqs, constraints, ref_constraints, E_x_i, pdbs, ref_pdbs,
                    mut_seqs, E_x_mut, pdbs_mut, accepted, pos, mut_type,
                    start >>

\* MCMC.py:143-150
Substitution ==
    /\ pc = "edit"
    /\ mut_type = "substitution"
    /\ \E replacement \in Replacements :
          Appended(Substitute(seqs[m], pos, replacement),
                   SubstitutionConstraints(constraints[m]))

\* MCMC.py:152-161
Insertion ==
    /\ pc = "edit"
    /\ mut_type = "insertion"
    /\ \E insertion \in Replacements :
          Appended(Insert(seqs[m], pos, insertion),
                   InsertionConstraints(constraints[m], pos))

\* MCMC.py:163-173
Deletion ==
    /\ pc = "edit"
    /\ mut_type = "deletion"
    /\ DeletionApplies(seqs[m])
    /\ Appended(Delete(seqs[m], pos), DeletionConstraints(constraints[m], pos))

\* MCMC.py:175-185: the else branch, an insertion
FallbackInsertion ==
    /\ pc = "edit"
    /\ mut_type = "deletion"
    /\ ~DeletionApplies(seqs[m])
    /\ \E insertion \in Replacements :
          Appended(Insert(seqs[m], pos, insertion),
                   InsertionConstraints(constraints[m], pos))

\* `return mutated_seqs, mutated_constraints` and the assignment
\* `mut_seqs, constraints = mutate(seqs, mut_p, constraints)` (MCMC.py:192,
\* 295); the frame of mutate is gone.
MutateReturn ==
    /\ pc = "return"
    /\ mut_seqs' = mutated_seqs
    /\ constraints' = mutated_constraints
    /\ mutated_seqs' = << >>
    /\ mutated_constraints' = << >>
    /\ pos' = -1
    /\ mut_type' = "none"
    /\ pc' = "score"
    /\ UNCHANGED << config, training, scoring, termsets, effects, decision, i,
                    seqs, ref_constraints, E_x_i, pdbs, ref_pdbs, E_x_mut,
                    pdbs_mut, accepted, start >>

(***************************************************************************)
(* run(), MCMC.py:297: the scoring of the proposals.                       *)
(***************************************************************************)
EnergyFunction ==
    /\ pc = "score"
    /\ E_x_mut' \in [Traj -> Energies]
    /\ terms_x_mut' = [n \in Traj |-> EnabledTerms]
    /\ pdbs_mut' = PredictedStructures(mut_seqs)
    /\ pc' = "p_accept"
    /\ UNCHANGED << config, training, scoring, terms_x_i, effects, decision, i,
                    seqs, constraints, ref_constraints, E_x_i, pdbs, ref_pdbs,
                    mut_seqs, accepted, pos, mut_type, mutated_seqs,
                    mutated_constraints, start >>

\* The scoring of the proposals raises (MCMC.py:297); `constraints` was
\* rebound at line 295.
ScoringFails ==
    /\ pc = "score"
    /\ exc' = "ScoringError"
    /\ pc' = "error"
    /\ UNCHANGED << config, training, scoring, termsets, decision, written,
                    dir_exists, i, seqs, constraints, ref_constraints, E_x_i,
                    pdbs, ref_pdbs, mut_seqs, E_x_mut, pdbs_mut, accepted, pos,
                    mut_type, mutated_seqs, mutated_constraints, start >>

(***************************************************************************)
(* run(), MCMC.py:299: p = p_accept(E_x_mut, E_x_i, T, i, M), one element  *)
(* per trajectory, from the energies as they are before any decision of    *)
(* the step.                                                               *)
(***************************************************************************)
PAcceptCall ==
    /\ pc = "p_accept"
    /\ T_eff' = EffectiveT(T, M, i)
    /\ p' = [t \in DOMAIN E_x_mut |-> PAcceptAt(E_x_mut[t], E_x_i[t], T_eff')]
    /\ pc' = "decide"
    /\ UNCHANGED << config, training, scoring, termsets, effects, r, i, seqs,
                    constraints, ref_constraints, E_x_i, pdbs, ref_pdbs,
                    mut_seqs, E_x_mut, pdbs_mut, accepted, pos, mut_type,
                    mutated_seqs, mutated_constraints, start >>

(***************************************************************************)
(* run(), MCMC.py:300-307: the decision for trajectory n, on a fresh       *)
(* random.random().                                                        *)
(***************************************************************************)
n == Len(accepted) + 1

\* a slip of Exceeds: `>=` for `>`
ExceedsOrEquals(x, y) == ~Less(x, y)

\* p[n] > random.random()
Exceeds(x, y) == Less(y, x)

\* num = '{:04d}'.format(i): the decimal digits of i, zero-padded on the
\* left to four characters (more when i has more digits)
RECURSIVE Digits(_)
Digits(k) == IF k < 10 THEN << k >> ELSE Append(Digits(k \div 10), k % 10)

Format04d(k) ==
    LET d == Digits(k)
    IN  IF Len(d) >= 4 THEN d ELSE [j \in 1 .. (4 - Len(d)) |-> 0] \o d

\* a slip of FileName: the trajectory index is left out of the name
FileNameOfStep(num, t) == << num, "_design", ".pdb" >>

\* f'{num}_design_{n}.pdb', n being the 0-based trajectory index
FileName(num, t) == << num, "_design_", Digits(t - 1), ".pdb" >>

\* `if self.pred_struc and outdir != None` (MCMC.py:305)
KeepsStructure == pred_struc /\ outdir

\* MCMC.py:302-306: the condition holds and the proposal is taken
AcceptApplied ==
    /\ pc = "decide"
    /\ n <= n_traj
    /\ r' \in Draws
    /\ Exceeds(p[n], r')
    /\ E_x_i' = [E_x_i EXCEPT ![n] = E_x_mut[n]]
    /\ terms_x_i' = [terms_x_i EXCEPT ![n] = terms_x_mut[n]]
    /\ seqs' = [seqs EXCEPT ![n] = mut_seqs[n]]
    /\ pdbs' = IF KeepsStructure THEN [pdbs EXCEPT ![n] = pdbs_mut[n]]
                                 ELSE pdbs
    \* self.ref_pdbs = pdbs (MCMC.py:292) is the same list object
    /\ ref_pdbs' = pdbs'
    /\ accepted' = Append(accepted, TRUE)
    /\ UNCHANGED << config, training, scoring, terms_x_mut, p, T_eff,
                    dir_exists, i, constraints, ref_constraints, mut_seqs,
                    E_x_mut, pdbs_mut, pos, mut_type, mutated_seqs,
                    mutated_constraints, start >>

Accept ==
    /\ AcceptApplied
    /\ written' = IF KeepsStructure
                      THEN Append(written, FileName(Format04d(i), n))
                      ELSE written
    /\ UNCHANGED << pc, exc >>

\* pdbs[n].write(...) raises (MCMC.py:307): the file is not written, and
\* run() catches nothing.
WriteFails ==
    /\ AcceptApplied
    /\ KeepsStructure
    /\ exc' = "IOError"
    /\ pc' = "error"
    /\ UNCHANGED written

Reject ==
    /\ pc = "decide"
    /\ n <= n_traj
    /\ r' \in Draws
    /\ ~Exceeds(p[n], r')
    /\ accepted' = Append(accepted, FALSE)
    /\ UNCHANGED << config, training, scoring, termsets, effects, p, T_eff, pc,
                    i, seqs, constraints, ref_constraints, E_x_i, pdbs,
                    ref_pdbs, mut_seqs, E_x_mut, pdbs_mut, pos, mut_type,
                    mutated_seqs, mutated_constraints, start >>

\* The end of `for n in range(len(p))` and the next iteration of
\* `for i in range(steps)`, or `return (seqs)` (MCMC.py:294, 309).  The
\* locals of the finished iteration are rebound before they are read again.
NextStep ==
    /\ pc = "decide"
    /\ n > n_traj
    /\ i' = i + 1
    /\ pc' = LoopEntry(i + 1)
    /\ mut_seqs' = << >>
    /\ E_x_mut' = << >>
    /\ pdbs_mut' = << >>
    /\ accepted' = << >>
    /\ terms_x_mut' = << >>
    /\ p' = << >>
    /\ r' = NoDraw
    /\ start' = Snapshot(seqs, constraints, E_x_i, pdbs)
    /\ UNCHANGED << config, training, scoring, terms_x_i, effects, T_eff, seqs,
                    constraints, ref_constraints, E_x_i, pdbs, ref_pdbs, pos,
                    mut_type, mutated_seqs, mutated_constraints >>

Next ==
    \/ RunSetup
    \/ InitialScoringFails
    \/ RunFails
    \/ DrawLocked
    \/ DrawUnlocked
    \/ DrawFails
    \/ Substitution
    \/ Insertion
    \/ Deletion
    \/ FallbackInsertion
    \/ MutateReturn
    \/ EnergyFunction
    \/ ScoringFails
    \/ PAcceptCall
    \/ Accept
    \/ WriteFails
    \/ Reject
    \/ NextStep

Spec == Init /\ [][Next]_vars

(***************************************************************************)
(* mutate() called on its own, on a list of n_traj equal sequences with    *)
(* one constraint dict (as run() first calls it), the dict being any one   *)
(* whose positions are indices of the sequence, or lie one before or one   *)
(* after them, as the dicts run() passes in later steps can.               *)
(* random.randint and random.choices are fair: a position that can be      *)
(* drawn again and again is eventually drawn.                              *)
(***************************************************************************)
CallConstraints(seq) ==
    LET P == -1 .. Len(seq)
        Total(f) == Cardinality(f["no_mut"]) + Cardinality(f["all_atm"])
                    + Cardinality(f["region"])
    IN  {[const \in Kinds |-> SortedSeq(f[const])] :
            f \in {g \in [Kinds -> SUBSET P] : Total(g) <= MaxConstrained}}

MutateInit ==
    /\ \E L \in 1 .. MaxNativeLen :
          /\ seqs = [t \in Traj |-> NativeOfLen(L)]
          /\ \E c \in CallConstraints(NativeOfLen(L)) :
                constraints = [t \in Traj |-> c]
    /\ native_seq = seqs[1]
    /\ self_constraints = constraints[1]
    /\ outdir = FALSE
    /\ pred_struc = FALSE
    /\ T = DefaultT
    /\ M = DefaultM
    /\ mut_p = DefaultMutP
    /\ NoneYet
    /\ NotScoring
    /\ pc = "search"
    /\ i = 0
    /\ ref_constraints = << >>
    /\ E_x_i = << >>
    /\ pdbs = << >>
    /\ ref_pdbs = << >>
    /\ mut_seqs = << >>
    /\ E_x_mut = << >>
    /\ pdbs_mut = << >>
    /\ accepted = << >>
    /\ pos = -1
    /\ mut_type = "none"
    /\ mutated_seqs = << >>
    /\ mutated_constraints = << >>
    /\ start = Snapshot(<< >>, << >>, << >>, << >>)

MutateNext ==
    \/ DrawLocked
    \/ DrawUnlocked
    \/ Substitution
    \/ Insertion
    \/ Deletion
    \/ FallbackInsertion
    \/ MutateReturn

MutateSpec ==
    /\ MutateInit
    /\ [][MutateNext]_vars
    /\ WF_vars(MutateNext)
    /\ SF_vars(DrawUnlocked)

(***************************************************************************)
(* p_accept() called on its own, as run() calls it: on two arrays of       *)
(* n_traj energies, with one T > 0 and one M >= 0, at the step indices     *)
(* 0, 1, ... of `for i in range(steps)`.                                   *)
(***************************************************************************)
PAcceptInit ==
    /\ T \in 1 .. MaxT
    /\ M \in 0 .. MaxM
    /\ E_x_mut \in [Traj -> 0 .. MaxPE]
    /\ E_x_i \in [Traj -> 0 .. MaxPE]
    /\ i = 0
    /\ pc = "p_accept"
    /\ NoneYet
    /\ NotScoring
    /\ native_seq = NativeOfLen(1)
    /\ self_constraints = [const \in Kinds |-> << >>]
    /\ outdir = FALSE
    /\ pred_struc = FALSE
    /\ mut_p = DefaultMutP
    /\ seqs = << >>
    /\ constraints = << >>
    /\ ref_constraints = << >>
    /\ pdbs = << >>
    /\ ref_pdbs = << >>
    /\ mut_seqs = << >>
    /\ pdbs_mut = << >>
    /\ accepted = << >>
    /\ pos = -1
    /\ mut_type = "none"
    /\ mutated_seqs = << >>
    /\ mutated_constraints = << >>
    /\ start = Snapshot(<< >>, << >>, << >>, << >>)

\* the next iteration of `for i in range(steps)` (MCMC.py:294), on the same
\* energies
NextCall ==
    /\ pc = "decide"
    /\ i + 1 < steps
    /\ i' = i + 1
    /\ pc' = "p_accept"
    /\ p' = << >>
    /\ UNCHANGED << config, training, scoring, termsets, effects, T_eff, r,
                    seqs, constraints, ref_constraints, E_x_i, pdbs, ref_pdbs,
                    mut_seqs, E_x_mut, pdbs_mut, accepted, pos, mut_type,
                    mutated_seqs, mutated_constraints, start >>

PAcceptNext ==
    \/ PAcceptCall
    \/ NextCall

PAcceptSpec == PAcceptInit /\ [][PAcceptNext]_vars

(***************************************************************************)
(* energy_function() called on its own, on a list of one sequence, term    *)
(* by term.  The scoring terms and the structure predictor (module         *)
(* Constraints) are outside this file: a term returns any float, the       *)
(* finite ones within 0..MaxRaw, or inf or NaN.                            *)
(***************************************************************************)
RawValues == {Rat(v, 1) : v \in 0 .. MaxRaw} \cup {PosInf, NaN}

\* the value of term k from what Constraints returned: pTMs and pLDDTs are
\* 1 - val (MCMC.py:217-218; x is val / 100 for pLDDT)
TermValue(k, x) == IF Terms[k] \in {"ptm", "plddt"} THEN OneMinus(x) ELSE x

EnergyInit ==
    /\ pred_struc \in BOOLEAN
    /\ seqs = << NativeOfLen(1) >>
    /\ ref_pdbs \in {<< >>, << Structure(NativeOfLen(1)) >>}
    /\ weights \in [DOMAIN Terms -> 0 .. MaxW]
    /\ term = 0
    \* energies = np.zeros(len(seqs))
    /\ energies = [t \in DOMAIN seqs |-> Zero]
    /\ raw = << >>
    /\ pc = "energy"
    /\ NoneYet
    /\ NotTraining
    /\ native_seq = NativeOfLen(1)
    /\ self_constraints = [const \in Kinds |-> << >>]
    /\ outdir = FALSE
    /\ T = DefaultT
    /\ M = DefaultM
    /\ mut_p = DefaultMutP
    /\ i = 0
    /\ constraints = << self_constraints >>
    /\ ref_constraints = << self_constraints >>
    /\ E_x_i = << >>
    /\ pdbs = << >>
    /\ mut_seqs = << >>
    /\ E_x_mut = << >>
    /\ pdbs_mut = << >>
    /\ accepted = << >>
    /\ pos = -1
    /\ mut_type = "none"
    /\ mutated_seqs = << >>
    /\ mutated_constraints = << >>
    /\ start = Snapshot(<< >>, << >>, << >>, << >>)

\* energies += weight * term (MCMC.py:208-211, 219-222, 226-227)
AddTerm ==
    /\ pc = "energy"
    /\ term < Enabled
    /\ raw' \in [DOMAIN seqs -> RawValues]
    /\ energies' = [t \in DOMAIN seqs |->
                       Plus(energies[t],
                            Times(weights[term + 1],
                                  TermValue(term + 1, raw'[t])))]
    /\ term' = term + 1
    /\ UNCHANGED << config, training, termsets, effects, decision, weights, pc,
                    i, seqs, constraints, ref_constraints, E_x_i, pdbs,
                    ref_pdbs, mut_seqs, E_x_mut, pdbs_mut, accepted, pos,
                    mut_type, mutated_seqs, mutated_constraints, start >>

\* return energies, pdbs (MCMC.py:243)
EnergyReturn ==
    /\ pc = "energy"
    /\ term = Enabled
    /\ pc' = "energy_done"
    /\ UNCHANGED << config, training, termsets, effects, decision, scoring, i,
                    seqs, constraints, ref_constraints, E_x_i, pdbs, ref_pdbs,
                    mut_seqs, E_x_mut, pdbs_mut, accepted, pos, mut_type,
                    mutated_seqs, mutated_constraints, start >>

EnergyNext ==
    \/ AddTerm
    \/ EnergyReturn

EnergySpec == EnergyInit /\ [][EnergyNext]_vars

(***************************************************************************)
(* Vocabulary of the properties.                                           *)
(***************************************************************************)
\* the object is configured as run() expects: a native sequence, and
\* mutation probabilities of positive sum
ValidConfiguration == native_seq # NoSeq /\ Sum(mut_p) > 0

\* every position of every list of c is an index of seq
ValidConstraints(c, seq) ==
    \A const \in DOMAIN c : \A j \in DOMAIN c[const] :
        0 <= c[const][j] /\ c[const][j] < Len(seq)

\* run() holds `constraints` as the constraint sets of `seqs`
AtCurrentPair == pc \in {"search", "edit", "return", "done"}

\* the step of mutate that applies the edit to sequence m
EditStep == pc = "edit"

\* the else branch of mutate is the one taken
IsFallback == mut_type = "deletion" /\ ~(Len(seqs[m]) > 1)

\* mutate has edited its last sequence and has not returned yet
LastEdited == pc = "return"

\* -------------------------------------------------------------------------
\* C1 (on runs of a valid configuration):
\* at every point where run() holds `constraints` as the constraint
\* sets of `seqs` (step boundaries and the end of the run), for every
\* trajectory and every kind, every stored position p satisfies
\* 0 <= p < len(seqs[n]).
C1_ConstraintsValid ==
    (ValidConfiguration /\ AtCurrentPair) =>
        \A t \in Traj : ValidConstraints(constraints[t], seqs[t])

\* -------------------------------------------------------------------------
\* C2 (on runs of a valid configuration):
\* a trajectory whose proposal was rejected in this step has the
\* sequence, constraint set, energy and structure it had when the step began.
C2_RejectKeepsState ==
    (ValidConfiguration /\ pc = "decide") =>
        \A t \in DOMAIN accepted :
            ~accepted[t] =>
                /\ seqs[t] = start.seqs[t]
                /\ constraints[t] = start.constraints[t]
                /\ E_x_i[t] = start.E_x_i[t]
                /\ (pred_struc => pdbs[t] = start.pdbs[t])

\* -------------------------------------------------------------------------
\* C3 (on runs of a valid configuration):
\* the residue that the native sequence has at a no_mut position is
\* present in every trajectory's current sequence at all times of run()
\* (the native residues are distinct and are never drawn as replacements,
\* so presence of the letter is presence of that residue).
C3_LockedResidueKept ==
    (ValidConfiguration /\ pc # "init") =>
        \A t \in Traj : \A j \in DOMAIN self_constraints["no_mut"] :
            native_seq[self_constraints["no_mut"][j] + 1] \in Range(seqs[t])

\* -------------------------------------------------------------------------
\* C4: the position at which mutate edits sequence m is listed neither
\* under no_mut nor under all_atm of that sequence's constraints, and the
\* edit touches that position only: the residues before it are kept and the
\* residues after it are the last residues of the result.
C4_EditSiteUnlocked ==
    [][EditStep =>
        LET k == m
            seq == seqs[k]
            new == mutated_seqs'[k]
            tail == Len(seq) - pos - 1
        IN  /\ ~InList(pos, constraints[k]["no_mut"])
            /\ ~InList(pos, constraints[k]["all_atm"])
            /\ 0 <= pos /\ pos < Len(seq)
            /\ SubSeq(new, 1, pos) = SubSeq(seq, 1, pos)
            /\ SubSeq(new, Len(new) - tail + 1, Len(new))
                  = SubSeq(seq, pos + 2, Len(seq))]_vars

\* C4's case: an edit site was drawn for a sequence that has an all_atm
\* position, and the drawn site is another position.
C4_Witness ==
    /\ pc = "edit"
    /\ constraints[m]["all_atm"] # << >>
    /\ Len(seqs[m]) > 1
    /\ ~InList(pos, constraints[m]["all_atm"])

\* -------------------------------------------------------------------------
\* C5: the site search of mutate always ends: whenever mutate is searching
\* a site it eventually leaves the search (with an edit site, or, when every
\* position is locked, with NoMutableSite).
C5_SearchTerminates == [](pc = "search" => <>(pc # "search"))

\* -------------------------------------------------------------------------
\* C6 (on runs of a valid configuration):
\* for a deletion at pos every list of the constraint set becomes the
\* list without pos, with the positions > pos decremented and the positions
\* < pos kept; a list of distinct non-negative positions stays one.
DeletionRemap(positions, q) ==
    LET kept == SelectSeq(positions, LAMBDA x : x # q)
    IN  [j \in DOMAIN kept |-> IF kept[j] > q THEN kept[j] - 1 ELSE kept[j]]

Distinct(positions) ==
    \A a, b \in DOMAIN positions : positions[a] = positions[b] => a = b

C6_DeletionRemap ==
    [][(ValidConfiguration /\ EditStep /\ mut_type = "deletion"
          /\ Len(seqs[m]) > 1) =>
        LET k == m
        IN  \A const \in Kinds :
               LET old == constraints[k][const]
                   new == mutated_constraints'[k][const]
               IN  /\ new = DeletionRemap(old, pos)
                   /\ (Distinct(old) => Distinct(new))
                   /\ ((\A j \in DOMAIN old : old[j] >= 0)
                          => \A j \in DOMAIN new : new[j] >= 0)]_vars

C8_NonDeletionValid ==
    [][(EditStep /\ ValidConstraints(constraints[m], seqs[m])
          /\ (mut_type \in {"substitution", "insertion"} \/ IsFallback)) =>
        LET k == m
        IN  /\ ValidConstraints(mutated_constraints'[k], mutated_seqs'[k])
            /\ (mut_type = "substitution" =>
                   /\ mutated_constraints'[k] = constraints[k]
                   /\ Len(mutated_seqs'[k]) = Len(seqs[k]))]_vars

\* C8's case: an insertion into a sequence whose last position is
\* constrained: the list now holds the new last position.
C8_Witness ==
    /\ LastEdited
    /\ mut_type = "insertion"
    /\ ValidConstraints(constraints[n_traj], seqs[n_traj])
    /\ \E const \in Kinds :
          /\ InList(Len(seqs[n_traj]) - 1, constraints[n_traj][const])
          /\ InList(Len(seqs[n_traj]), mutated_constraints[n_traj][const])

\* -------------------------------------------------------------------------
\* C9: given a non-empty native sequence, no sequence held by run() or
\* built by mutate is empty; a deletion removes a residue only from a
\* sequence longer than 1, and on a sequence of length 1 the drawn deletion
\* inserts at the same position instead, giving length 2.
NoEmptySequence ==
    /\ \A t \in DOMAIN seqs : seqs[t] # << >>
    /\ \A t \in DOMAIN mutated_seqs : mutated_seqs[t] # << >>
    /\ \A t \in DOMAIN mut_seqs : mut_seqs[t] # << >>

C10_AcceptReplacesAll ==
    (ValidConfiguration /\ pc = "decide") =>
        \A t \in DOMAIN accepted :
            accepted[t] =>
                /\ seqs[t] = mut_seqs[t]
                /\ E_x_i[t] = E_x_mut[t]
                /\ (pred_struc => pdbs[t] = pdbs_mut[t])

\* the decision of trajectory n is about to be taken
DecisionStep == pc = "decide" /\ n <= n_traj

\* no trajectory but t changes in seqs, E_x_i, pdbs or constraints
OnlyChanges(t) ==
    /\ constraints' = constraints
    /\ \A u \in Traj \ {t} :
          /\ seqs'[u] = seqs[u]
          /\ E_x_i'[u] = E_x_i[u]
          /\ (pred_struc => pdbs'[u] = pdbs[u])

\* -------------------------------------------------------------------------
\* C11: in every step, the decision of trajectory n draws a fresh number of
\* [0, 1) and accepts the proposal (the trajectory takes the proposed
\* sequence and energy) if and only if the draw is strictly less than the
\* acceptance probability of trajectory n's own current and proposed
\* energies at the step's index; the decision changes trajectory n only.
C11_AcceptIffDrawBelow ==
    [][DecisionStep =>
          LET prob == PAccept(E_x_mut[n], E_x_i[n], T, i, M)
              below == Less(r', prob)
          IN  /\ r' \in Draws
              /\ accepted' = Append(accepted, below)
              /\ below => /\ seqs'[n] = mut_seqs[n]
                          /\ E_x_i'[n] = E_x_mut[n]
              /\ ~below => /\ seqs'[n] = seqs[n]
                           /\ E_x_i'[n] = E_x_i[n]
              /\ OnlyChanges(n)]_vars

\* C11's case: in one step a proposal of probability below 1 was accepted,
\* and another proposal was rejected on a draw equal to its probability.
C11_Witness ==
    /\ pc = "decide"
    /\ Len(accepted) = n_traj
    /\ accepted[1]
    /\ Less(p[1], Zero)
    /\ ~accepted[n_traj]
    /\ Same(r, p[n_traj])

\* p_accept has returned
Returned == pc = "decide"

\* the float is exactly 1, as a logarithm
IsOne(x) == Same(x, Zero)

\* -------------------------------------------------------------------------
\* C12: for every T > 0, M >= 0 and i >= 0, the element of p_accept's
\* result is exactly 1 for every trajectory whose proposed energy is
\* strictly lower than its current energy.
C12_ImprovementAccepted ==
    Returned => \A t \in DOMAIN p : E_x_mut[t] < E_x_i[t] => IsOne(p[t])

\* C12's case: p_accept has returned at a step index above 0 with a decay
\* above 0, for an improved proposal beside a degraded one.
C12_Witness ==
    /\ Returned
    /\ i > 0
    /\ M > 0
    /\ E_x_mut[1] < E_x_i[1]
    /\ E_x_mut[n_traj] > E_x_i[n_traj]
    /\ IsOne(p[1])
    /\ ~IsOne(p[n_traj])

\* energy_proposed - energy_current of trajectory t
Degradation(t) == E_x_mut[t] - E_x_i[t]

\* -------------------------------------------------------------------------
\* C13: at one temperature and step index, of two proposals on the same
\* current energy the one with the larger energy_proposed - energy_current
\* never has the larger acceptance probability, and every acceptance
\* probability is within [0, 1], equal energies included.
C13_MonotoneInDegradation ==
    Returned =>
        /\ \A t \in DOMAIN p : ~Less(Zero, p[t]) /\ ~Less(p[t], NegInf)
        /\ \A a, b \in DOMAIN p :
              (E_x_i[a] = E_x_i[b] /\ Degradation(a) <= Degradation(b))
                  => ~Less(p[a], p[b])

\* -------------------------------------------------------------------------
\* C14: the local T of p_accept at step index i is T / (1 + M * i) for
\* every T > 0 and M >= 0 (M in hundredths: 100 * T / (100 + M * i)); from
\* one call to the next, at the following step index, it does not grow.
C14_TemperatureDecays ==
    /\ [](Returned => Same(T_eff, Rat(100 * T, 100 + M * i)))
    /\ [][(pc = "p_accept" /\ T_eff # NoDraw) => ~Less(T_eff, T_eff')]_vars

\* C14's case: a second call, at step index 1 with M > 0, at a temperature
\* strictly below T.
C14_Witness ==
    /\ Returned
    /\ i = 1
    /\ M > 0
    /\ Less(T_eff, Rat(T, 1))

\* the decisions of a step are all taken: the end of an outer iteration
IterationEnd == pc = "decide" /\ n > n_traj

\* the number of program points of one outer iteration: two per proposal
\* (search, edit), the return of mutate, the scoring, the call of p_accept,
\* and the decisions taken so far (0 .. n_traj)
PointsPerStep == 3 * n_traj + 4

\* how far run() has come: the program points passed
Progress ==
    CASE pc = "init" -> -1
      [] pc = "search" -> i * PointsPerStep + 2 * (m - 1)
      [] pc = "edit" -> i * PointsPerStep + 2 * (m - 1) + 1
      [] pc = "return" -> i * PointsPerStep + 2 * n_traj
      [] pc = "score" -> i * PointsPerStep + 2 * n_traj + 1
      [] pc = "p_accept" -> i * PointsPerStep + 2 * n_traj + 2
      [] pc = "decide" -> i * PointsPerStep + 2 * n_traj + 3 + Len(accepted)
      [] pc = "done" -> steps * PointsPerStep
      [] pc = "error" -> steps * PointsPerStep + 1

\* a draw of the site search of mutate that hit a locked position
LockedDraw == pc = "search" /\ pc' = "search" /\ mutated_seqs' = mutated_seqs

C16_ReferenceReadOnly ==
    [][(ValidConfiguration /\ pc # "init") =>
          /\ ref_pdbs' = ref_pdbs
          /\ ref_constraints' = ref_constraints]_vars

\* -------------------------------------------------------------------------
\* C17: a missing native sequence is rejected when the object is
\* constructed: run() is never entered on an object whose native_seq is
\* None, so for such an object run() neither raises nor has made the output
\* directory.
C17_MissingNativeRejectedAtConstruction ==
    native_seq = NoSeq => pc = "init" /\ ~dir_exists /\ exc = "none"

\* -------------------------------------------------------------------------
\* C18: mutation probabilities that sum to 0 are reported as a
\* ConfigurationError before the step loop: run() on such an object gets
\* no further than its start, ends with that error, scores nothing and
\* proposes nothing.
C18_InvalidMutPRejectedBeforeLoop ==
    Sum(mut_p) = 0 =>
        /\ pc \in {"init", "error"}
        /\ pc = "error" => exc = "ConfigurationError"
        /\ E_x_i = << >>
        /\ pos = -1

\* -------------------------------------------------------------------------
\* C19: in energy_function, adding a term whose weight is 0 leaves every
\* sequence's energy as it was, whatever the term returned (NaN or inf
\* included), so that the total is the weighted sum of the other terms.
C19_ZeroWeightContributesZero ==
    [][(pc = "energy" /\ term' = term + 1 /\ weights[term + 1] = 0)
          => energies' = energies]_vars

\* k as four decimal digits (k < 10000)
FourDigits(k) ==
    << (k \div 1000) % 10, (k \div 100) % 10, (k \div 10) % 10, k % 10 >>

C21_WriteFailureSkipped ==
    ValidConfiguration => ~(pc = "error" /\ exc = "IOError")

\* a step of the loop had begun when run() ended on an exception
FailedInStep == pc = "error" /\ start.seqs # << >>

\* -------------------------------------------------------------------------
\* C22 (on runs of a valid configuration):
\* when run() ends on an exception raised during a step, every
\* trajectory has the sequence, constraint set, energy and structure it had
\* when that step began.
C22_FailureKeepsStepStart ==
    (ValidConfiguration /\ FailedInStep) =>
        /\ seqs = start.seqs
        /\ constraints = start.constraints
        /\ E_x_i = start.E_x_i
        /\ pdbs = start.pdbs

\* the terms that measure the deviation from self.ref_pdbs
Coordination == {"bb_coord", "all_atm"}

\* the energies of the native sequence are those of a fresh run's setup
FirstScored == pc # "init" /\ terms_x_i # << >> /\ i = 0 /\ accepted = << >>

\* -------------------------------------------------------------------------
\* C24 (on runs of a valid configuration):
\* the coordination terms are in an energy only when self.ref_pdbs existed
\* at its scoring: the energies of the native sequence of a fresh run are
\* without them, the energies of the proposals of a step (with structure
\* prediction) are with them, and at every decision the current and the
\* proposed energy of a trajectory are sums of the same terms.
C24_SameTermsCompared ==
    ValidConfiguration =>
        /\ FirstScored =>
              \A t \in Traj : terms_x_i[t] \cap Coordination = {}
        /\ (pc = "decide" /\ pred_struc) =>
              \A t \in Traj : Coordination \subseteq terms_x_mut[t]
        /\ DecisionStep => terms_x_i[n] = terms_x_mut[n]

\* C24 as amended: as above, but the current energy of a trajectory is a
\* sum of the same terms as its proposed energy only once the trajectory
\* has accepted a proposal (or without structure prediction); until then,
\* with structure prediction, it is the energy of the native sequence and
\* lacks exactly the two coordination terms.
C24_TermsOfComparedEnergies ==
    /\ FirstScored =>
          \A t \in Traj : terms_x_i[t] \cap Coordination = {}
    /\ (pc = "decide" /\ pred_struc) =>
          \A t \in Traj : Coordination \subseteq terms_x_mut[t]
    /\ pc = "decide" =>
          \A t \in Traj :
              \/ terms_x_i[t] = terms_x_mut[t]
              \/ /\ pred_struc
                 /\ seqs[t] = native_seq
                 /\ terms_x_i[t] = terms_x_mut[t] \ Coordination
    /\ pc = "decide" =>
          \A t \in DOMAIN accepted :
              accepted[t] => terms_x_i[t] = terms_x_mut[t]

\* C24's case: with structure prediction, one trajectory has accepted and
\* holds an energy with the coordination terms, and another has rejected
\* and still holds the energy of the native sequence, without them.
C24_Witness ==
    /\ pc = "decide"
    /\ pred_struc
    /\ Len(accepted) = n_traj
    /\ accepted[1]
    /\ ~accepted[n_traj]
    /\ Coordination \subseteq terms_x_i[1]
    /\ terms_x_i[n_traj] \cap Coordination = {}
    /\ Coordination \subseteq terms_x_mut[n_traj]

\* mutate has been called and has not returned
InMutate == pc \in {"search", "edit", "return"}

\* -------------------------------------------------------------------------
\* C23: mutate leaves its inputs as they are.  No step of a call changes
\* the list of sequences, a constraint dict or one of its position lists,
\* and until the call returns they hold the values they were passed with:
\* the sequences of the call and, for every trajectory, the one constraint
\* dict that the trajectories share.
C23_MutateKeepsInputs ==
    /\ [](InMutate =>
             /\ seqs = [t \in Traj |-> native_seq]
             /\ constraints = [t \in Traj |-> self_constraints])
    /\ [][(InMutate /\ pc # "return") =>
             seqs' = seqs /\ constraints' = constraints]_vars

\* C23's case: the call has edited every sequence, the shared dict had a
\* position that the first edit moved, and the dict still has it unmoved.
C23_Witness ==
    /\ LastEdited
    /\ \E const \in Kinds :
          /\ constraints[1][const] # << >>
          /\ mutated_constraints[1][const] # constraints[1][const]
          /\ constraints[n_traj][const] = constraints[1][const]

(***************************************************************************)
(* EarlyStopping (pytorchtools.py:74-120), called on its own: any sequence *)
(* of at most MaxCalls calls, each with a validation loss in 0..MaxLoss   *)
(* and the model as it is at that call (model = the number of the call).  *)
(***************************************************************************)

\* no MCMC object: nothing of src/design/MCMC.py is running
NoDesign ==
    /\ native_seq = NoSeq
    /\ self_constraints = [const \in Kinds |-> << >>]
    /\ outdir = FALSE
    /\ pred_struc = FALSE
    /\ T = DefaultT
    /\ M = DefaultM
    /\ mut_p = DefaultMutP
    /\ NoneYet
    /\ weights = << >>
    /\ term = 0
    /\ energies = << >>
    /\ raw = << >>
    /\ i = 0
    /\ seqs = << >>
    /\ constraints = << >>
    /\ ref_constraints = << >>
    /\ E_x_i = << >>
    /\ pdbs = << >>
    /\ ref_pdbs = << >>
    /\ mut_seqs = << >>
    /\ E_x_mut = << >>
    /\ pdbs_mut = << >>
    /\ accepted = << >>
    /\ pos = -1
    /\ mut_type = "none"
    /\ mutated_seqs = << >>
    /\ mutated_constraints = << >>
    /\ start = Snapshot(<< >>, << >>, << >>, << >>)

design == << config, effects, termsets, scoring, decision, i, seqs,
            constraints, ref_constraints, E_x_i, pdbs, ref_pdbs, mut_seqs,
            E_x_mut, pdbs_mut, accepted, pos, mut_type, mutated_seqs,
            mutated_constraints, start >>

\* a float compared as Python compares it: every comparison with nan is
\* False
Lower(x, y) == ~IsNaN(x) /\ ~IsNaN(y) /\ Less(x, y)

\* -x
Neg(x) == Rat(0 - x.num, x.den)

\* the validation losses of the calls: Python floats, inf and nan included
Losses == {Rat(k, 1) : k \in 0 .. MaxLoss} \cup {PosInf, NaN}

\* EarlyStopping.__init__ (pytorchtools.py:77-96); best_score is << >> for
\* None and << score >> for a score, val_loss_min starts as np.Inf
EarlyStopping(patience, delta) ==
    [patience |-> patience, counter |-> 0, best_score |-> << >>,
     early_stop |-> FALSE, val_loss_min |-> PosInf, delta |-> Rat(delta, 1)]

\* `score < self.best_score + self.delta` (pytorchtools.py:105)
Below(score, es) == Lower(score, Plus(es.best_score[1], es.delta))

\* an improvement that also takes the stop back
ImprovedUnlatching(es, val_loss) ==
    [es EXCEPT !.best_score = << Neg(val_loss) >>,
               !.val_loss_min = val_loss,
               !.counter = 0,
               !.early_stop = FALSE]

\* the else branch of __call__ with its save_checkpoint
\* (pytorchtools.py:110-113, 120)
Improved(es, val_loss) ==
    [es EXCEPT !.best_score = << Neg(val_loss) >>,
               !.val_loss_min = val_loss,
               !.counter = 0]

\* the elif branch of __call__ (pytorchtools.py:105-109)
NotImproved(es) ==
    [es EXCEPT !.counter = es.counter + 1,
               !.early_stop = IF es.counter + 1 >= es.patience THEN TRUE
                              ELSE es.early_stop]

\* does __call__ call save_checkpoint (pytorchtools.py:102-104, 110-112)
Saves(es, val_loss) ==
    \/ es.best_score = << >>
    \/ ~Below(Neg(val_loss), es)

\* EarlyStopping.__call__ (pytorchtools.py:98-113): the object after the call
Called(es, val_loss) ==
    IF es.best_score = << >>
    THEN [es EXCEPT !.best_score = << Neg(val_loss) >>,
                    !.val_loss_min = val_loss]
    ELSE IF Below(Neg(val_loss), es) THEN NotImproved(es)
    ELSE Improved(es, val_loss)

\* save_checkpoint (pytorchtools.py:115-119): the file after a call made
\* with the model in state `state`
Saved(es, val_loss, state) ==
    IF Saves(es, val_loss) THEN << state >> ELSE checkpoint

EarlyStoppingInit ==
    /\ \E patience \in 1 .. MaxPatience, delta \in 0 .. MaxDelta :
          early_stopping = EarlyStopping(patience, delta)
    /\ checkpoint = << >>
    /\ calls = << >>
    /\ epoch = 0
    /\ best_val_loss = PosInf
    /\ val_losses = << >>
    /\ model_file = << >>
    /\ model = 0
    /\ pc = "early_stopping"
    /\ NoDesign

\* early_stopping(val_loss, model) (pytorchtools.py:98-113), the model
\* having changed since the call before
Call ==
    /\ pc = "early_stopping"
    /\ Len(calls) < MaxCalls
    /\ \E val_loss \in Losses :
          /\ model' = model + 1
          /\ early_stopping' = Called(early_stopping, val_loss)
          /\ checkpoint' = Saved(early_stopping, val_loss, model')
          /\ calls' = Append(calls, val_loss)
    /\ UNCHANGED << design, pc, epoch, best_val_loss, val_losses,
                    model_file >>

EarlyStoppingNext == Call

EarlyStoppingSpec == EarlyStoppingInit /\ [][EarlyStoppingNext]_vars

(***************************************************************************)
(* EarlyStopping: the counter, the checkpoints and the stop (C25, C27).    *)
(***************************************************************************)
\* a step that is a call of early_stopping
IsCall == Len(calls') = Len(calls) + 1

\* the loss of the call a step makes
LossOfCall == calls'[Len(calls')]

\* x >= y of two floats
AtLeast(x, y) == ~IsNaN(x) /\ ~IsNaN(y) /\ ~Less(x, y)

\* an improvement: the first call, or a call whose score -loss is at least
\* best_score + delta
Improvement(es, val_loss) ==
    \/ es.best_score = << >>
    \/ AtLeast(Neg(val_loss), Plus(es.best_score[1], es.delta))

\* what a call does to the counter, the checkpoint and the stop
CounterRule ==
    /\ Improvement(early_stopping, LossOfCall) =>
          /\ early_stopping'.counter = 0
          /\ checkpoint' = << model' >>
    /\ ~Improvement(early_stopping, LossOfCall) =>
          /\ early_stopping'.counter = early_stopping.counter + 1
          /\ checkpoint' = checkpoint
    /\ (~early_stopping.early_stop /\ early_stopping'.early_stop) <=>
          (/\ ~early_stopping.early_stop
           /\ early_stopping'.counter = early_stopping.counter + 1
           /\ early_stopping'.counter = early_stopping.patience)

\* C25: over any sequence of calls the counter is the number of consecutive
\* calls since the last improvement, each improvement saves a checkpoint and
\* resets the counter to 0, and early_stop becomes True exactly at the call
\* where the counter reaches patience.
C25_CounterSinceImprovement == [][IsCall => CounterRule]_vars

\* C27: early_stop is latched: once it is True no later call sets it back to
\* False, even a call that is an improvement; and after every call
\* val_loss_min is the loss of the last checkpointed call, -best_score.
C27_StopLatched ==
    /\ [][(IsCall /\ early_stopping.early_stop) =>
             early_stopping'.early_stop]_vars
    /\ [](calls # << >> =>
             /\ checkpoint # << >>
             /\ early_stopping.val_loss_min = calls[checkpoint[1]]
             /\ early_stopping.best_score =
                   << Neg(early_stopping.val_loss_min) >>)

\* a call after the stop was an improvement: the counter is back at 0, the
\* checkpoint is the model of this call, and the stop is still set
C27_Witness ==
    /\ early_stopping.early_stop
    /\ early_stopping.counter = 0
    /\ Len(calls) > 1
    /\ checkpoint = << Len(calls) >>
    /\ Lower(calls[Len(calls)], calls[Len(calls) - 1])

(***************************************************************************)
(* train (pytorchtools.py:151-200): one action per iteration of            *)
(* `for epoch in range(epochs)`.  The state of the model is the number of  *)
(* epochs it was trained in this call; `epoch` is the index of the         *)
(* iteration, epochs after the last one.  validate returns any loss.       *)
(***************************************************************************)

\* the state a file left by an earlier call of train holds
Stale == 0 - 1

\* `val_loss < best_val_loss` (pytorchtools.py:192)
LowerLoss(val_loss, best) == Lower(val_loss, best)

TrainInit ==
    \* best_val_loss = float('inf'), the lists, EarlyStopping(patience)
    \* (pytorchtools.py:155-158)
    /\ \E patience \in 1 .. MaxPatience :
          early_stopping = EarlyStopping(patience, 0)
    /\ checkpoint = << >>
    /\ calls = << >>
    /\ epoch = 0
    /\ best_val_loss = PosInf
    /\ val_losses = << >>
    \* activity_model_<fold> in save_path: absent, or left by an earlier call
    /\ model_file \in {<< >>, << Stale >>}
    /\ model = 0
    /\ pc = "train"
    /\ NoDesign

\* an iteration up to the call of invoke (pytorchtools.py:161-196, 64-71):
\* the epoch's training, validate, the two appends, the save of a lower
\* loss, and early_stopping(val_losses[-1], model)
Iteration(val_loss) ==
    /\ pc = "train"
    /\ epoch < epochs
    /\ val_losses' = val_losses \o << val_loss, val_loss >>
    /\ IF LowerLoss(val_loss, best_val_loss)
       THEN /\ model_file' = << epoch + 1 >>
            /\ best_val_loss' = val_loss
       ELSE UNCHANGED << model_file, best_val_loss >>
    /\ early_stopping' = Called(early_stopping, val_loss)
    /\ checkpoint' = Saved(early_stopping, val_loss, epoch + 1)
    /\ calls' = Append(calls, val_loss)
    /\ UNCHANGED design

\* invoke returns None: the loop goes on, or ends with range(epochs)
Epoch ==
    \E val_loss \in Losses :
        /\ Iteration(val_loss)
        /\ ~early_stopping'.early_stop
        /\ model' = epoch + 1
        /\ epoch' = epoch + 1
        /\ pc' = IF epoch + 1 = epochs THEN "returned" ELSE "train"

\* invoke returns True (pytorchtools.py:69-71, 197-198): load_state_dict of
\* the saved file, which torch.load cannot read when it is absent, and break
EarlyStop ==
    \E val_loss \in Losses :
        /\ Iteration(val_loss)
        /\ early_stopping'.early_stop
        /\ epoch' = epoch
        /\ IF model_file' = << >>
           THEN /\ model' = epoch + 1
                /\ pc' = "FileNotFoundError"
           ELSE /\ model' = model_file'[1]
                /\ pc' = "returned"

TrainNext == Epoch \/ EarlyStop

TrainSpec == TrainInit /\ [][TrainNext]_vars

(***************************************************************************)
(* train: the saved best state, the end of the loop, the restore (C26).    *)
(***************************************************************************)
\* epoch k (the k-th iteration) had the lowest validation loss so far
Lowest(k) ==
    /\ ~IsNaN(calls[k])
    /\ \A j \in DOMAIN calls : ~Lower(calls[j], calls[k])

\* the earliest epoch with the lowest validation loss so far
IsEarliestLowest(k) ==
    /\ Lowest(k)
    /\ \A j \in 1 .. k - 1 : ~Lowest(j)

\* the file holds the state the model had after the earliest epoch with the
\* lowest loss
BestSaved ==
    \A k \in DOMAIN calls : IsEarliestLowest(k) => model_file = << k >>

\* the loop is over exactly when early stopping triggered or `epochs`
\* iterations were made
StopsWhenTriggered ==
    /\ pc = "train" => (~early_stopping.early_stop /\ epoch < epochs)
    /\ pc # "train" => (early_stopping.early_stop \/ epoch = epochs)
    /\ Len(calls) <= epochs

\* on early stop the model is the one of the saved file
Restored ==
    early_stopping.early_stop =>
        (pc = "returned" /\ model_file = << model >>)

\* C26: in train, after every epoch the saved file holds the model state of
\* the earliest epoch with the strictly lowest validation loss seen so far in
\* that call; the loop stops at the first epoch at which early stopping
\* triggers or after `epochs` epochs; on early stop the model is restored
\* from the saved best state.
C26_BestStateSaved == BestSaved /\ StopsWhenTriggered /\ Restored

====
